---- MODULE Spec2Model ----
(***************************************************************************)
(* Model of the GOYOJO GW192A thermal camera viewer (src/GW192a_test.py):   *)
(* the settings store (atomic save, backup, load with merge), the start-up  *)
(* code that derives the configuration from the loaded settings, and the    *)
(* main loop with its key handlers and the recording session.               *)
(*                                                                         *)
(* Conventions.                                                            *)
(*  - A Python value is a record [t, i, s]: its type tag, its integer part  *)
(*    and its string part.  A float is kept by its integer part only (the   *)
(*    model's floats all have a non-zero fraction).                         *)
(*  - A dict is a function from key strings to values.                      *)
(*  - A file is a record [kind, eol, data].  kind "json" is the text of a   *)
(*    JSON object, eol its line ending and data its members as JSON tokens; *)
(*    the other kinds carry no data.                                        *)
(*  - The platform is POSIX (os.linesep = "\n").                            *)
(*  - Writing the error log (log_error) always succeeds and is not part of  *)
(*    the state.                                                            *)
(***************************************************************************)
EXTENDS Integers, Sequences, FiniteSets, TLC

\* ------------------------------------------------------------------------
\* Bounds of the model
\* ------------------------------------------------------------------------
MaxTicks     == 1  \* main-loop iterations explored from any settings file
MaxPointerTicks == 3
MaxLoopTicks == 3  \* main-loop iterations explored from the default file

\* ------------------------------------------------------------------------
\* Python values
\* ------------------------------------------------------------------------
IntV(n)   == [t |-> "int",   i |-> n, s |-> ""]
BoolV(b)  == [t |-> "bool",  i |-> IF b THEN 1 ELSE 0, s |-> ""]
FloatV(n) == [t |-> "float", i |-> n, s |-> ""]
StrV(x)   == [t |-> "str",   i |-> 0, s |-> x]

\* isinstance(x, ty) for ty the type of a default value: bool is a subclass
\* of int, so isinstance(True, int) holds.
IsInstance(x, ty) ==
    IF ty = "int" THEN x.t \in {"int", "bool"} ELSE x.t = ty

\* str.isdigit() and int(str) on the strings the model uses.
DigitStrings == ("0" :> 0) @@ ("1" :> 1) @@ ("2" :> 2) @@ ("3" :> 3)

\* int(x): [ok, val]; ok = FALSE when int() raises (a non-numeric string).
\* int() of a float truncates toward zero.
PyInt(x) ==
    CASE x.t = "int"   -> [ok |-> TRUE, val |-> x.i]
      [] x.t = "bool"  -> [ok |-> TRUE, val |-> x.i]
      [] x.t = "float" -> [ok |-> TRUE, val |-> IF x.i < 0 THEN x.i + 1 ELSE x.i]
      [] x.t = "str" /\ x.s \in DOMAIN DigitStrings ->
                          [ok |-> TRUE, val |-> DigitStrings[x.s]]
      [] OTHER         -> [ok |-> FALSE, val |-> 0]

\* ------------------------------------------------------------------------
\* JSON text <-> Python values (json.dump / json.load)
\* ------------------------------------------------------------------------
\* A JSON token is [j, i, s]: "number" (integer literal), "fraction" (a
\* literal with a fractional part), "true", "false", "string".
json_dump_value(v) ==
    CASE v.t = "bool"  -> [j |-> IF v.i = 1 THEN "true" ELSE "false", i |-> 0, s |-> ""]
      [] v.t = "int"   -> [j |-> "number",   i |-> v.i, s |-> ""]
      [] v.t = "float" -> [j |-> "fraction", i |-> v.i, s |-> ""]
      [] OTHER         -> [j |-> "string",   i |-> 0,   s |-> v.s]

json_load_token(tok) ==
    CASE tok.j = "true"     -> BoolV(TRUE)
      [] tok.j = "false"    -> BoolV(FALSE)
      [] tok.j = "number"   -> IntV(tok.i)
      [] tok.j = "fraction" -> FloatV(tok.i)
      [] OTHER              -> StrV(tok.s)

json_dump(d) == [k \in DOMAIN d |-> json_dump_value(d[k])]
json_load(m) == [k \in DOMAIN m |-> json_load_token(m[k])]

\* ------------------------------------------------------------------------
\* Files
\* ------------------------------------------------------------------------
NoData == [k \in {} |-> 0]

Absent      == [kind |-> "absent",      eol |-> "lf", data |-> NoData]
EmptyFile   == [kind |-> "empty",       eol |-> "lf", data |-> NoData]
Partial     == [kind |-> "partial",     eol |-> "lf", data |-> NoData]
Garbage     == [kind |-> "garbage",     eol |-> "lf", data |-> NoData]
Undecodable == [kind |-> "undecodable", eol |-> "lf", data |-> NoData]
NonObject   == [kind |-> "nonobject",   eol |-> "lf", data |-> NoData]
JsonFile(m, e) == [kind |-> "json", eol |-> e, data |-> m]

\* The text json.dump(data, f, indent=4) writes through a text-mode file.
Dumped(d) == JsonFile(json_dump(d), "lf")

\* json.load succeeds on the file (any JSON document, object or not).
Parses(f) == f.kind \in {"json", "nonobject"}

\* The file can be read as UTF-8 text.
Decodes(f) == f.kind # "undecodable"

\* f.read() in text mode followed by f.write() in text mode: universal
\* newlines turn every line ending into "\n", written back as os.linesep.
TextCopy(f) == [f EXCEPT !.eol = "lf"]

\* ------------------------------------------------------------------------
\* The settings store
\* ------------------------------------------------------------------------
default_settings ==
    ("_comment_1" :> StrV("------------ GOYOJO GW192A CAMERA INDEX ---------------------")) @@
    ("_comment_2" :> StrV("")) @@
    ("_comment_WINDOWS_SYSTEM" :> StrV("For Windows use numeric index")) @@
    ("_comment_3" :> StrV("")) @@
    ("_comment_LINUX_SYSTEM" :> StrV("For Linux/Raspberry Pi use device path instead")) @@
    ("_comment_4" :> StrV("")) @@
    ("_comment_5" :> StrV("-------------------------------------------------------------")) @@
    ("gw192a_camera_index" :> IntV(1)) @@
    ("rotation_index" :> IntV(1)) @@
    ("map_index" :> IntV(0)) @@
    ("interpolation_index" :> IntV(0)) @@
    ("scale_percent" :> IntV(650))

\* Outcomes of one atomic_save_json call.  "ok": every step succeeds.
\* "<step>_fails": that step raises an Exception.  "int_<point>": the
\* process is interrupted (KeyboardInterrupt, kill) at that point.
SaveFailures   == {"mkstemp_fails", "dump_fails", "flush_fails", "fsync_fails", "replace_fails"}
SaveInterrupts == {"int_mkstemp", "int_dump", "int_fsync", "int_replaced"}
SaveOutcomes   == {"ok"} \cup SaveFailures \cup SaveInterrupts

\* What the temporary file holds when the save stops with outcome out
\* (Absent: mkstemp did not create it).
TmpAt(out, new) ==
    CASE out = "mkstemp_fails" -> Absent
      [] out = "int_mkstemp"   -> EmptyFile
      [] out \in {"dump_fails", "int_dump", "flush_fails"} -> Partial
      [] OTHER                 -> new

\* atomic_save_json writing straight into path instead of a temporary file:
\* whatever was written when the save stops is what the settings file holds.
atomic_save_json_inplace(d, data, out) ==
    LET new == Dumped(data)
        tmp == TmpAt(out, new)
    IN  CASE out \in {"ok", "int_replaced"} ->
               [disk |-> [d EXCEPT !.cfg = new], ret |-> TRUE,
                interrupted |-> out # "ok"]
          [] out = "mkstemp_fails" ->
               [disk |-> d, ret |-> FALSE, interrupted |-> FALSE]
          [] OTHER ->
               [disk |-> [d EXCEPT !.cfg = tmp], ret |-> FALSE,
                interrupted |-> out \in SaveInterrupts]

\* atomic_save_json(path, data) on the settings path: the disk afterwards,
\* the value returned, and whether the process was interrupted inside it.
\* disk = [cfg, backups, tmp]: the settings file, the backup files and the
\* temporary files left in the settings directory.
atomic_save_json(d, data, out) ==
    LET new == Dumped(data)
        tmp == TmpAt(out, new)
    IN  CASE out = "ok" ->
               \* os.replace(tmp_path, path)
               [disk |-> [d EXCEPT !.cfg = new], ret |-> TRUE, interrupted |-> FALSE]
          [] out = "int_replaced" ->
               [disk |-> [d EXCEPT !.cfg = new], ret |-> TRUE, interrupted |-> TRUE]
          [] out \in SaveInterrupts \ {"int_replaced"} ->
               \* no handler runs: the temporary file stays
               [disk |-> [d EXCEPT !.tmp = @ \cup {tmp}], ret |-> FALSE, interrupted |-> TRUE]
          [] OTHER ->
               \* except Exception: os.remove(tmp_path) when it exists
               [disk |-> d, ret |-> FALSE, interrupted |-> FALSE]

\* How a call r of atomic_save_json ended.
SaveResult(r) ==
    IF r.interrupted THEN "interrupted" ELSE IF r.ret THEN "ok" ELSE "failed"

\* Outcomes of one backup_file call.
BackupOutcomes == {"ok", "read_fails", "write_fails"}

\* backup_file(path) at time now: the disk afterwards.  Every exception is
\* caught and logged inside.
backup_file(d, now_, out) ==
    IF d.cfg.kind = "absent" THEN d
    ELSE IF out = "read_fails" \/ ~Decodes(d.cfg) THEN d
    ELSE LET copy == IF out = "write_fails" THEN Partial ELSE TextCopy(d.cfg)
         IN  [d EXCEPT !.backups =
                 {b \in @ : b.ts # now_} \cup {[ts |-> now_, file |-> copy]}]

\* The loop of load_settings resetting the whole dict when any key is
\* missing or of the wrong type.
MergeDefaults_reset(data) ==
    IF \E k \in DOMAIN default_settings :
           k \notin DOMAIN data \/ ~IsInstance(data[k], default_settings[k].t)
    THEN default_settings
    ELSE data

\* The loop of load_settings over default_settings.items().
MergeDefaults(data) ==
    [k \in DOMAIN data \cup DOMAIN default_settings |->
        IF k \in DOMAIN default_settings
           /\ (k \notin DOMAIN data \/ ~IsInstance(data[k], default_settings[k].t))
        THEN default_settings[k]
        ELSE data[k]]

\* load_settings without the save of line 89: a missing file stays missing.
load_settings_no_persist(d, now_, bout, sout) ==
    IF d.cfg.kind = "absent" THEN
        [ret |-> default_settings, disk |-> d, branch |-> "created",
         saved |-> "none", interrupted |-> FALSE]
    ELSE IF d.cfg.kind = "json" THEN
        LET data   == json_load(d.cfg.data)
            merged == MergeDefaults(data)
        IN  IF merged # data THEN
                LET r == atomic_save_json(backup_file(d, now_, bout), merged, sout)
                IN  [ret |-> merged, disk |-> r.disk, branch |-> "merged",
                     saved |-> SaveResult(r), interrupted |-> r.interrupted]
            ELSE [ret |-> data, disk |-> d, branch |-> "kept",
                  saved |-> "none", interrupted |-> FALSE]
    ELSE
        LET r == atomic_save_json(backup_file(d, now_, bout), default_settings, sout)
        IN  [ret |-> default_settings, disk |-> r.disk, branch |-> "reset",
             saved |-> SaveResult(r), interrupted |-> r.interrupted]

\* load_settings with changed starting as True: every parsed file is backed
\* up and written again.
load_settings_always_rewrite(d, now_, bout, sout) ==
    IF d.cfg.kind = "absent" THEN
        LET r == atomic_save_json(d, default_settings, sout)
        IN  [ret |-> default_settings, disk |-> r.disk, branch |-> "created",
             saved |-> SaveResult(r), interrupted |-> r.interrupted]
    ELSE IF d.cfg.kind = "json" THEN
        LET merged == MergeDefaults(json_load(d.cfg.data))
            r == atomic_save_json(backup_file(d, now_, bout), merged, sout)
        IN  [ret |-> merged, disk |-> r.disk, branch |-> "merged",
             saved |-> SaveResult(r), interrupted |-> r.interrupted]
    ELSE
        LET r == atomic_save_json(backup_file(d, now_, bout), default_settings, sout)
        IN  [ret |-> default_settings, disk |-> r.disk, branch |-> "reset",
             saved |-> SaveResult(r), interrupted |-> r.interrupted]

\* load_settings(): the dict returned, the disk afterwards, the branch
\* taken ("created", "kept", "merged", "reset"), the result of the save it
\* made ("none" when it made none) and whether it was interrupted.
load_settings(d, now_, bout, sout) ==
    IF d.cfg.kind = "absent" THEN
        LET r == atomic_save_json(d, default_settings, sout)
        IN  [ret |-> default_settings, disk |-> r.disk, branch |-> "created",
             saved |-> SaveResult(r), interrupted |-> r.interrupted]
    ELSE IF d.cfg.kind = "json" THEN
        LET data   == json_load(d.cfg.data)
            merged == MergeDefaults(data)
        IN  IF merged # data THEN
                LET r == atomic_save_json(backup_file(d, now_, bout), merged, sout)
                IN  [ret |-> merged, disk |-> r.disk, branch |-> "merged",
                     saved |-> SaveResult(r), interrupted |-> r.interrupted]
            ELSE [ret |-> data, disk |-> d, branch |-> "kept",
                  saved |-> "none", interrupted |-> FALSE]
    ELSE
        \* json.load raised, or the loop raised on a document that is no dict
        LET r == atomic_save_json(backup_file(d, now_, bout), default_settings, sout)
        IN  [ret |-> default_settings, disk |-> r.disk, branch |-> "reset",
             saved |-> SaveResult(r), interrupted |-> r.interrupted]

\* update_and_save keeping the dict as it was when the save fails.
update_and_save_rollback(d, settings_, key_, value, out) ==
    LET dict == (key_ :> value) @@ settings_
        r    == atomic_save_json(d, dict, out)
    IN  [settings |-> IF r.ret THEN dict ELSE settings_, disk |-> r.disk,
         success |-> r.ret, interrupted |-> r.interrupted]

\* update_and_save(settings, key, value): the dict afterwards and the save.
update_and_save(d, settings_, key_, value, out) ==
    LET dict == (key_ :> value) @@ settings_
        r    == atomic_save_json(d, dict, out)
    IN  [settings |-> dict, disk |-> r.disk, success |-> r.ret,
         interrupted |-> r.interrupted]

\* ------------------------------------------------------------------------
\* Program constants (module level of src/GW192a_test.py)
\* ------------------------------------------------------------------------
min_scale == 150
max_scale == 1000
step      == 50

\* rotation_modes, color_maps, interpolation_type: the lists of library
\* constants, kept by their names.
rotation_modes == << "None", "ROTATE_90_CLOCKWISE", "ROTATE_180", "ROTATE_90_COUNTERCLOCKWISE" >>
color_maps ==
    << "INFERNO", "AUTUMN", "BONE", "CIVIDIS", "COOL", "DEEPGREEN", "HOT", "HSV",
       "JET", "MAGMA", "OCEAN", "PARULA", "PINK", "PLASMA", "RAINBOW", "SPRING",
       "SUMMER", "TURBO", "TWILIGHT", "TWILIGHT_SHIFTED", "VIRIDIS", "WINTER" >>
interpolation_type ==
    << "INTER_LINEAR_EXACT", "INTER_NEAREST", "INTER_AREA", "INTER_BITS",
       "INTER_BITS2", "INTER_CUBIC", "INTER_LANCZOS4", "INTER_LINEAR" >>

Min(a, b) == IF a < b THEN a ELSE b
Max(a, b) == IF a > b THEN a ELSE b

\* BoundIndex without the modulo of lines 180-182.
BoundIndex_unchecked(ix, n) == ix

\* ClampScale without the upper limit of line 183.
ClampScale_floor_only(sp) == IF sp > min_scale THEN sp ELSE min_scale

\* "Defensive bounds" of the start-up code.  Python's % with a positive
\* modulus is never negative, like the % of Integers.
BoundIndex(ix, n) == ix % n
ClampScale(sp)    == Max(Min(sp, max_scale), min_scale)

\* Lines 192-193: a camera source given as a digit string becomes an int.
NormalizeCameraSource(v) ==
    IF v.t = "str" /\ v.s \in DOMAIN DigitStrings THEN IntV(DigitStrings[v.s]) ELSE v

\* open_camera(source, width, height): outs[a] is what attempt a does
\* ("opened", "closed": isOpened() is false, "raises").  Returns the number
\* of the attempt that returned the stream, 0 for None.
CameraOutcomes == {"opened", "closed", "raises"}
\* open_camera without the retry loop.
open_camera_once(outs) == IF outs[1] = "opened" THEN 1 ELSE 0

RECURSIVE OpenFrom(_, _)
OpenFrom(outs, attempt) ==
    IF attempt > 3 THEN 0
    ELSE IF outs[attempt] = "opened" THEN attempt
    ELSE OpenFrom(outs, attempt + 1)
open_camera(outs) == OpenFrom(outs, 1)

\* ------------------------------------------------------------------------
\* Frames
\* ------------------------------------------------------------------------
\* An image is [w, h, marks]: its pixel dimensions and the overlays drawn on
\* it.  The capture source delivers frames of one shape for the whole run;
\* the program asks for 96 x 96 (lines 147-148, 203-204) and the device may
\* or may not comply.
cameraResolution_Horizontal == 96
cameraResolution_Vertical   == 96
FrameShapes ==
    {[w |-> cameraResolution_Horizontal, h |-> cameraResolution_Vertical],
     [w |-> 160, h |-> 120]}
NoShape == [w |-> 0, h |-> 0]
NoFrame == [w |-> 0, h |-> 0, marks |-> {}]

\* cv2.rotate (lines 248-249): the quarter turns swap width and height.
Rotated(shape, ri) ==
    IF rotation_modes[ri + 1] \in {"ROTATE_90_CLOCKWISE", "ROTATE_90_COUNTERCLOCKWISE"}
    THEN [w |-> shape.h, h |-> shape.w]
    ELSE shape

\* Python's round() of the quotient n / q: to the nearest integer, a tie to
\* the even one.
PyRound(n, q) ==
    LET k == n \div q
        twice == 2 * (n % q)
    IN  IF twice > q \/ (twice = q /\ k % 2 = 1) THEN k + 1 ELSE k

\* Lines 266-267 with round() in the place of int().
Scaled_round(d, sp) == Max(1, PyRound(d * sp, 100))

\* max(1, int(d * scale_percent / 100)) (lines 266-267): int() truncates.
Scaled(d, sp) == Max(1, (d * sp) \div 100)

\* gray_uint8 (lines 252-254) for the scene the camera looks at: a diagonal
\* ramp, normalized by NORM_MINMAX to 0 at the top-left pixel and 255 at the
\* bottom-right one.
gray_uint8(shape, x, y) == ((x + y) * 255) \div (shape.w + shape.h - 2)

\* The integers k below 200 for which the double k / 100 * 100 lies just
\* under k, so that int() gives k - 1 (int(0.29 * 100) is 28).
FloatShort == {29, 57, 58, 113, 114, 115, 116}

\* int(c / scale_percent * 100) (lines 320-321): the division is done in
\* floating point and int() cuts the fraction off towards zero.
Unscaled(c, sp) ==
    LET a == IF c < 0 THEN 0 - c ELSE c
        k == (a * 100) \div sp
        t == IF (a * 100) % sp = 0 /\ k \in FloatShort THEN k - 1 ELSE k
    IN  IF c < 0 THEN 0 - t ELSE t

\* Lines 319-328: the source pixel under the pointer and its value in
\* percent.
Pointer(shape, m, mx, my) ==
    LET src == Rotated(shape, m.rotation_index)
        ox  == Min(Max(Unscaled(mx, m.scale_percent), 0), src.w - 1)
        oy  == Min(Max(Unscaled(my, m.scale_percent), 0), src.h - 1)
    IN  [orig_x |-> ox, orig_y |-> oy,
         mouse_value |-> (gray_uint8(src, ox, oy) * 100) \div 255]

\* Lines 247-273: the resized, palettized image, nothing drawn on it.
clean_frame(shape, m) ==
    LET r == Rotated(shape, m.rotation_index)
    IN  [w |-> Scaled(r.w, m.scale_percent), h |-> Scaled(r.h, m.scale_percent),
         marks |-> {}]

MESSAGE_DURATION == 2
BLINK_INTERVAL   == 1

\* Line 316 without the test of the elapsed time.
MessageDrawn_sticky(m, t) == m.last_message.text # ""

\* Line 316: whether the last message is drawn by an iteration at time t.
MessageDrawn(m, t) ==
    m.last_message.text # "" /\ t - m.last_message_time < MESSAGE_DURATION

\* Lines 276-350: the copy of clean_frame with the overlays drawn on it. The
\* footer and the pointer readout are always drawn.
display_frame(cf, m, t) ==
    [cf EXCEPT !.marks =
        {"footer", "pointer"}
        \cup (IF m.show_gradient THEN {"gradient"} ELSE {})
        \cup (IF m.show_text THEN {"help"} ELSE {})
        \cup (IF MessageDrawn(m, t) THEN {"message"} ELSE {})]

\* Lines 352-364: while recording, the REC indicator blinks on the display
\* frame and clean_frame is written to the sink (wr = FALSE: write() raises,
\* which is logged and ignored).
Recording(cf, df, m, t, wr) ==
    IF ~m.is_recording THEN [mem |-> m, display |-> df, written |-> 0]
    ELSE LET toggle == t - m.last_blink_time >= BLINK_INTERVAL
             blink  == IF toggle THEN ~m.rec_blink_state ELSE m.rec_blink_state
             m1 == [m EXCEPT !.rec_blink_state = blink,
                             !.last_blink_time = IF toggle THEN t ELSE @]
             d1 == IF blink THEN [df EXCEPT !.marks = @ \cup {"rec"}] ELSE df
         IN  IF m.video_writer # 0 /\ wr
             THEN [mem |-> [m1 EXCEPT !.sinks[m.video_writer].frames = @ \cup {cf}],
                   display |-> d1, written |-> m.video_writer]
             ELSE [mem |-> m1, display |-> d1, written |-> 0]

\* ------------------------------------------------------------------------
\* On-screen messages
\* ------------------------------------------------------------------------
\* A message is [text, arg]: the fixed part of the f-string and the number
\* formatted into it (0 when there is none).
Msg(text, arg) == [text |-> text, arg |-> arg]
NoMsg == Msg("", 0)

\* ------------------------------------------------------------------------
\* State
\* ------------------------------------------------------------------------
VARIABLES
    pc,                  \* "start": before line 137; "main": at the top of the
                         \* while loop; "exited": the process has ended
    exit_code,           \* process exit status once exited
    budget,              \* main-loop iterations the model still explores
    camera_outs,         \* what each attempt to open the camera will do, when
                         \* the specification fixes it beforehand (else << >>)
    frame_shape,         \* shape of the frames the open stream delivers
    shots,               \* snapshot files: name -> image
    now,                 \* wall clock (seconds since the start)
    disk,                \* [cfg, backups, tmp]: the settings directory
    settings,            \* the settings dict
    camera_source,
    rotation_index,
    map_index,
    interpolation_index,
    scale_percent,
    show_text,
    show_gradient,
    is_recording,
    video_writer,        \* 0 for None, else the index of its sink in sinks
    rec_blink_state,
    last_blink_time,
    sinks,               \* video sinks created by this run:
                         \* [name, open, size, frames]
    stream,              \* "none", "open", "released"
    windows,             \* "none", "open", "destroyed"
    last_message,
    last_message_time,
    mouse_x,             \* the pointer position the mouse callback stored
    mouse_y,
    mouse_value,         \* the readout drawn next to the pointer
    orig_x,              \* the source pixel the last readout was taken from
    orig_y,
    \* observations of the last step, for stating properties
    shown,               \* the image the last iteration gave to imshow
    written,             \* the sink the last iteration wrote a frame to (0: none)
    boot_cfg,            \* the settings file as the current run found it
    load_branch,         \* branch load_settings took in the current run
    load_saved,          \* result of the save load_settings made
    last_tick,           \* [key, old]: key handled by the last iteration and
                         \* the value its configuration field had before
                         \* (for 'v': 1 when it was pressed while recording)
    last_save            \* [result, before, new, tmp]: the last step's
                         \* atomic_save_json call

mem_vars  == << settings, camera_source, rotation_index, map_index,
                interpolation_index, scale_percent, show_text, show_gradient,
                is_recording, video_writer, rec_blink_state, last_blink_time,
                sinks, stream, windows, last_message, last_message_time >>
obs_vars  == << shown, written, boot_cfg, load_branch, load_saved, last_tick,
                last_save >>
mouse_vars == << mouse_x, mouse_y, mouse_value, orig_x, orig_y >>
vars == << pc, exit_code, budget, camera_outs, frame_shape, shots, now, disk,
           mem_vars, mouse_vars, obs_vars >>

NoSave  == [result |-> "none", before |-> Absent, new |-> Absent, tmp |-> {}]
NoTick  == [key |-> "", old |-> 0]

\* The record of a save of data made on disk d with result r.
SaveLog(d, data, r) ==
    [result |-> SaveResult(r),
     before |-> d.cfg, new |-> Dumped(data), tmp |-> d.tmp]

\* ------------------------------------------------------------------------
\* Settings files the program may find at its first start
\* ------------------------------------------------------------------------
Num(n)  == [j |-> "number",   i |-> n, s |-> ""]
Frac(n) == [j |-> "fraction", i |-> n, s |-> ""]
Str(x)  == [j |-> "string",   i |-> 0, s |-> x]
JTrue   == [j |-> "true",     i |-> 0, s |-> ""]

\* The file a successful first start writes.
Base == json_dump(default_settings)
With(m, k, tok) == (k :> tok) @@ m
Without(m, k)   == [x \in DOMAIN m \ {k} |-> m[x]]

InitFiles ==
    { Absent, Garbage, Undecodable, NonObject,
      JsonFile(Base, "lf"),
      JsonFile(Base, "crlf"),
      JsonFile(NoData, "lf"),
      JsonFile(Without(Base, "_comment_1"), "lf"),
      JsonFile(With(Base, "_comment_2", Num(7)), "lf"),
      JsonFile(With(Base, "gw192a_camera_index", Str("/dev/video0")), "lf"),
      JsonFile(With(Base, "gw192a_camera_index", Str("2")), "lf"),
      JsonFile(With(Base, "gw192a_camera_index", Num(0)), "lf"),
      JsonFile(With(Base, "rotation_index", Num(0 - 1)), "lf"),
      JsonFile(With(Base, "rotation_index", Num(6)), "lf"),
      JsonFile(With(Base, "rotation_index", Str("3")), "lf"),
      JsonFile(With(Base, "rotation_index", JTrue), "lf"),
      JsonFile(With(Base, "rotation_index", Frac(2)), "crlf"),
      JsonFile(Without(Base, "rotation_index"), "crlf"),
      JsonFile(With(Base, "map_index", Num(21)), "lf"),
      JsonFile(With(Base, "map_index", Num(22)), "lf"),
      JsonFile(With(Base, "map_index", Num(0 - 23)), "lf"),
      JsonFile(With(Base, "interpolation_index", Num(7)), "lf"),
      JsonFile(With(Base, "interpolation_index", Num(8)), "lf"),
      JsonFile(With(Base, "scale_percent", Num(50000)), "lf"),
      JsonFile(With(Base, "scale_percent", Num(100)), "lf"),
      JsonFile(With(Base, "scale_percent", Num(155)), "lf"),
      JsonFile(With(Base, "scale_percent", Num(1000)), "lf"),
      JsonFile(With(Base, "scale_percent", Str("big")), "lf"),
      JsonFile(With(Base, "user_note", Str("keep")), "lf"),
      JsonFile(With(Without(Base, "scale_percent"), "user_note", Frac(3)), "lf"),
      JsonFile(With(With(With(With(Base, "rotation_index", Num(0 - 5)),
                    "map_index", Num(45)), "interpolation_index", Num(0 - 1)),
                    "scale_percent", Num(0 - 650)), "lf") }

\* ------------------------------------------------------------------------
\* The in-memory state as one record, and its assignment
\* ------------------------------------------------------------------------
Mem ==
    [settings |-> settings, camera_source |-> camera_source,
     rotation_index |-> rotation_index, map_index |-> map_index,
     interpolation_index |-> interpolation_index, scale_percent |-> scale_percent,
     show_text |-> show_text, show_gradient |-> show_gradient,
     is_recording |-> is_recording, video_writer |-> video_writer,
     rec_blink_state |-> rec_blink_state, last_blink_time |-> last_blink_time,
     sinks |-> sinks, stream |-> stream, windows |-> windows,
     last_message |-> last_message, last_message_time |-> last_message_time]

\* The module-level initial values (lines 119-151), before load_settings.
InitMem ==
    [settings |-> NoData, camera_source |-> IntV(1),
     rotation_index |-> 0, map_index |-> 0,
     interpolation_index |-> 0, scale_percent |-> 0,
     show_text |-> FALSE, show_gradient |-> TRUE,
     is_recording |-> FALSE, video_writer |-> 0,
     rec_blink_state |-> FALSE, last_blink_time |-> 0,
     sinks |-> << >>, stream |-> "none", windows |-> "none",
     last_message |-> NoMsg, last_message_time |-> 0]

Commit(m) ==
    /\ settings' = m.settings
    /\ camera_source' = m.camera_source
    /\ rotation_index' = m.rotation_index
    /\ map_index' = m.map_index
    /\ interpolation_index' = m.interpolation_index
    /\ scale_percent' = m.scale_percent
    /\ show_text' = m.show_text
    /\ show_gradient' = m.show_gradient
    /\ is_recording' = m.is_recording
    /\ video_writer' = m.video_writer
    /\ rec_blink_state' = m.rec_blink_state
    /\ last_blink_time' = m.last_blink_time
    /\ sinks' = m.sinks
    /\ stream' = m.stream
    /\ windows' = m.windows
    /\ last_message' = m.last_message
    /\ last_message_time' = m.last_message_time

\* show_message(text) at time t.
show_message(m, msg, t) ==
    [m EXCEPT !.last_message = msg, !.last_message_time = t]

\* video_writer.release(), or the writer object being dropped: its sink is
\* closed.
CloseSink(m) ==
    IF m.video_writer = 0 THEN m
    ELSE [m EXCEPT !.sinks[m.video_writer].open = FALSE]

\* The finally block without the release of the writer (lines 446-448).
Cleanup_no_release(m) ==
    [m EXCEPT !.stream = IF m.stream = "open" THEN "released" ELSE @,
              !.windows = "destroyed"]

\* The finally block (lines 445-456).
Cleanup(m) ==
    [CloseSink(m) EXCEPT !.stream = IF m.stream = "open" THEN "released" ELSE @,
                         !.windows = "destroyed"]

\* The memory of a process that has ended: its variables are gone, what
\* remains observable is what became of its sinks, stream and windows.
Ended(m) ==
    [InitMem EXCEPT !.sinks = m.sinks, !.stream = m.stream, !.windows = m.windows]

\* ------------------------------------------------------------------------
\* Start-up (lines 137-236)
\* ------------------------------------------------------------------------
\* dict.get(k, dv)
Get(dict, k, dv) == IF k \in DOMAIN dict THEN dict[k] ELSE dv

\* Lines 137-193: the configuration derived from the dict load_settings
\* returned.  ok = FALSE when an int() conversion raises.
Configure(m, loaded) ==
    LET ri == PyInt(Get(loaded, "rotation_index", IntV(1)))
        mi == PyInt(Get(loaded, "map_index", IntV(0)))
        ii == PyInt(Get(loaded, "interpolation_index", IntV(0)))
        sp == PyInt(Get(loaded, "scale_percent", IntV(600)))
    IN  [ok  |-> ri.ok /\ mi.ok /\ ii.ok /\ sp.ok,
         mem |-> [m EXCEPT
                    !.settings = loaded,
                    !.camera_source =
                        NormalizeCameraSource(Get(loaded, "gw192a_camera_index", IntV(1))),
                    !.rotation_index = BoundIndex(ri.val, Len(rotation_modes)),
                    !.map_index = BoundIndex(mi.val, Len(color_maps)),
                    !.interpolation_index = BoundIndex(ii.val, Len(interpolation_type)),
                    !.scale_percent = ClampScale(sp.val)]]

\* The state before the first statement runs at pc0: a settings file out of
\* files on the disk, b iterations to explore, the camera behaving as outs.
InitState(pc0, b, files, outs) ==
    /\ pc = pc0
    /\ exit_code = 0
    /\ budget = b
    /\ camera_outs \in outs
    /\ frame_shape = NoShape
    /\ shots = << >>
    /\ now = 0
    /\ disk \in {[cfg |-> f, backups |-> {}, tmp |-> {}] : f \in files}
    /\ settings = InitMem.settings
    /\ camera_source = InitMem.camera_source
    /\ rotation_index = InitMem.rotation_index
    /\ map_index = InitMem.map_index
    /\ interpolation_index = InitMem.interpolation_index
    /\ scale_percent = InitMem.scale_percent
    /\ show_text = InitMem.show_text
    /\ show_gradient = InitMem.show_gradient
    /\ is_recording = InitMem.is_recording
    /\ video_writer = InitMem.video_writer
    /\ rec_blink_state = InitMem.rec_blink_state
    /\ last_blink_time = InitMem.last_blink_time
    /\ sinks = InitMem.sinks
    /\ stream = InitMem.stream
    /\ windows = InitMem.windows
    /\ last_message = InitMem.last_message
    /\ last_message_time = InitMem.last_message_time
    /\ mouse_x = 0
    /\ mouse_y = 0
    /\ mouse_value = 0
    /\ orig_x = 0
    /\ orig_y = 0
    /\ shown = NoFrame
    /\ written = 0
    /\ boot_cfg = disk.cfg
    /\ load_branch = ""
    /\ load_saved = "none"
    /\ last_tick = NoTick
    /\ last_save = NoSave

Init == InitState("start", MaxTicks, InitFiles, {<< >>})

\* What open_camera can return, over every course of its three attempts.
CameraResults == {open_camera(outs) : outs \in [1..3 -> CameraOutcomes]}

\* The module-level code from load_settings() to the window creation, with
\* open_camera returning one of cams.
StartupWith(cams) ==
    /\ pc = "start"
    /\ \E bout \in BackupOutcomes, sout \in SaveOutcomes :
          LET L == load_settings(disk, now, bout, sout)
              C == Configure(Mem, L.ret)
          IN  /\ disk' = L.disk
              /\ load_branch' = L.branch
              /\ load_saved' = L.saved
              /\ last_save' = IF L.saved = "none" THEN NoSave
                              ELSE [result |-> L.saved,
                                    before |-> disk.cfg,
                                    new |-> Dumped(L.ret),
                                    tmp |-> disk.tmp]
              /\ IF L.interrupted
                 THEN \* KeyboardInterrupt leaves load_settings uncaught
                      /\ Commit(Ended(Mem)) /\ pc' = "exited" /\ exit_code' = 130
                      /\ frame_shape' = frame_shape
                 ELSE IF ~C.ok
                 THEN \* ValueError from int(), uncaught
                      /\ Commit(Ended(Mem)) /\ pc' = "exited" /\ exit_code' = 1
                      /\ frame_shape' = frame_shape
                 ELSE \E cam \in cams :
                        IF cam = 0
                        THEN \* lines 214-216: sys.exit(1)
                             /\ Commit(Ended(Mem)) /\ pc' = "exited" /\ exit_code' = 1
                             /\ frame_shape' = frame_shape
                        ELSE /\ Commit([C.mem EXCEPT !.stream = "open",
                                                     !.windows = "open"])
                             /\ pc' = "main" /\ exit_code' = 0
                             /\ frame_shape' \in FrameShapes
    /\ UNCHANGED << budget, camera_outs, shots, now, shown, written, boot_cfg,
                    last_tick, mouse_vars >>

Startup == StartupWith(CameraResults)

\* ------------------------------------------------------------------------
\* The main loop (lines 239-456)
\* ------------------------------------------------------------------------
\* Lines 257-263: applyColorMap; when it raises (cm), map_index becomes 0.
Pipeline(m, cm) == [m EXCEPT !.map_index = IF cm THEN 0 ELSE @]

\* The readout of the last iteration that computed one.
HeldPointer == [orig_x |-> orig_x, orig_y |-> orig_y, mouse_value |-> mouse_value]

\* Lines 242-367 of one iteration: the memory after them, clean_frame, the
\* image given to imshow, the sink a frame was written to and the pointer
\* readout.
View(cm, wr) ==
    LET m  == Pipeline(Mem, cm)
        cf == clean_frame(frame_shape, m)
        r  == Recording(cf, display_frame(cf, m, now), m, now, wr)
    IN  [mem |-> r.mem, clean |-> cf, display |-> r.display, written |-> r.written,
         pointer |-> Pointer(frame_shape, m, mouse_x, mouse_y)]

\* The outcomes of video_writer.write for an iteration: it is only called
\* while recording.
Writes == IF is_recording /\ video_writer # 0 THEN BOOLEAN ELSE {TRUE}

\* The result of a key handler: the memory and disk afterwards, the save it
\* made, whether the process was interrupted inside it, and the value the
\* handler's configuration field had before.
Handled(m, d, save, interrupted, old) ==
    [mem |-> m, disk |-> d, save |-> save, interrupted |-> interrupted, old |-> old]

\* A handler that sets configuration field key_ to value v, saves, and
\* shows msg (lines 376-378, 380-382, 384-386, 388-390, 392-394).
Persist(m, d, key_, v, msg, t, sout, old) ==
    LET u  == update_and_save(d, m.settings, key_, IntV(v), sout)
        m1 == [m EXCEPT !.settings = u.settings]
        r  == [ret |-> u.success, interrupted |-> u.interrupted]
    IN  Handled(IF u.interrupted THEN m1 ELSE show_message(m1, msg, t),
                u.disk, SaveLog(d, u.settings, r), u.interrupted, old)

KeyRotate(m, d, t, sout) ==
    LET ri == (m.rotation_index + 1) % 4
    IN  Persist([m EXCEPT !.rotation_index = ri], d, "rotation_index", ri,
                Msg("Rotate", ri * 90), t, sout, m.rotation_index)

KeyPalette(m, d, t, sout) ==
    LET mi == (m.map_index + 1) % Len(color_maps)
    IN  Persist([m EXCEPT !.map_index = mi], d, "map_index", mi,
                Msg("Color palette", mi + 1), t, sout, m.map_index)

KeyInterpolation(m, d, t, sout) ==
    LET ii == (m.interpolation_index + 1) % Len(interpolation_type)
    IN  Persist([m EXCEPT !.interpolation_index = ii], d, "interpolation_index", ii,
                Msg("Interpolation", ii + 1), t, sout, m.interpolation_index)

\* '+' / '=' without "and not is_recording" (line 387).
KeyZoomIn_while_recording(m, d, t, sout) ==
    LET sp == Min(m.scale_percent + step, max_scale)
    IN  Persist([m EXCEPT !.scale_percent = sp], d, "scale_percent", sp,
                Msg("Scale", sp), t, sout, m.scale_percent)

\* '+' / '=' and '-' / '_': while recording no branch of the elif chain
\* matches them.
KeyZoomIn(m, d, t, sout) ==
    IF m.is_recording THEN Handled(m, d, NoSave, FALSE, m.scale_percent)
    ELSE LET sp == Min(m.scale_percent + step, max_scale)
         IN  Persist([m EXCEPT !.scale_percent = sp], d, "scale_percent", sp,
                     Msg("Scale", sp), t, sout, m.scale_percent)

KeyZoomOut(m, d, t, sout) ==
    IF m.is_recording THEN Handled(m, d, NoSave, FALSE, m.scale_percent)
    ELSE LET sp == Max(m.scale_percent - step, min_scale)
         IN  Persist([m EXCEPT !.scale_percent = sp], d, "scale_percent", sp,
                     Msg("Scale", sp), t, sout, m.scale_percent)

KeyHelp(m)     == [m EXCEPT !.show_text = ~@]
KeyGradient(m) == [m EXCEPT !.show_gradient = ~@]

\* 's': cv2.imwrite "written", "not_written" (returns False) or "raises".
SnapshotOutcomes == {"written", "not_written", "raises"}
KeySnapshot(m, cf, sh, t, out) ==
    IF out = "raises"
    THEN [mem |-> show_message(m, Msg("Failed to save snapshot.", 0), t), shots |-> sh]
    ELSE [mem |-> show_message(m, Msg("Saved", t), t),
          shots |-> IF out = "written" THEN (t :> cf) @@ sh ELSE sh]

\* 'v' without line 422: a writer that did not open stays in video_writer.
KeyRecord_keep_writer(m, cf, t, out) ==
    IF ~m.is_recording THEN
        IF out = "opened" THEN
            LET sk == Append(m.sinks, [name |-> t, open |-> TRUE,
                                       size |-> << cf.w, cf.h >>, frames |-> {}])
            IN  show_message([m EXCEPT !.sinks = sk, !.video_writer = Len(sk),
                                       !.is_recording = TRUE,
                                       !.rec_blink_state = TRUE,
                                       !.last_blink_time = t],
                             Msg("Recording started", t), t)
        ELSE IF out = "not_opened" THEN
            LET sk == Append(m.sinks, [name |-> t, open |-> FALSE,
                                       size |-> << cf.w, cf.h >>, frames |-> {}])
            IN  show_message([m EXCEPT !.sinks = sk, !.video_writer = Len(sk),
                                       !.is_recording = FALSE],
                             Msg("Failed to start recording.", 0), t)
        ELSE show_message([m EXCEPT !.is_recording = FALSE],
                          Msg("Failed to start recording.", 0), t)
    ELSE
        LET m1 == [m EXCEPT !.is_recording = FALSE]
        IN  IF m1.video_writer = 0 THEN m1
            ELSE LET name == m1.sinks[m1.video_writer].name
                     m2   == [CloseSink(m1) EXCEPT !.video_writer = 0]
                 IN  IF out = "raises"
                     THEN show_message(m2, Msg("Failed to stop recording.", 0), t)
                     ELSE show_message(m2, Msg("Recording stopped", name), t)

\* 'v' (lines 404-434).  Starting: the writer is "opened", "not_opened"
\* (isOpened() is false) or its constructor "raises".  Stopping: release()
\* returns ("released") or "raises"; the writer object is dropped either
\* way, which closes its sink.
RecordOutcomes == {"opened", "not_opened", "raises", "released"}
KeyRecord(m, cf, t, out) ==
    IF ~m.is_recording THEN
        IF out = "opened" THEN
            LET sk == Append(m.sinks, [name |-> t, open |-> TRUE,
                                       size |-> << cf.w, cf.h >>, frames |-> {}])
            IN  show_message([m EXCEPT !.sinks = sk, !.video_writer = Len(sk),
                                       !.is_recording = TRUE,
                                       !.rec_blink_state = TRUE,
                                       !.last_blink_time = t],
                             Msg("Recording started", t), t)
        ELSE show_message([m EXCEPT !.video_writer = 0, !.is_recording = FALSE],
                          Msg("Failed to start recording.", 0), t)
    ELSE
        LET m1 == [m EXCEPT !.is_recording = FALSE]
        IN  IF m1.video_writer = 0 THEN m1
            ELSE LET name == m1.sinks[m1.video_writer].name
                     m2   == [CloseSink(m1) EXCEPT !.video_writer = 0]
                 IN  IF out = "raises"
                     THEN show_message(m2, Msg("Failed to stop recording.", 0), t)
                     ELSE show_message(m2, Msg("Recording stopped", name), t)

TickGuard == pc = "main" /\ budget > 0

\* The end of an iteration that handled key_ after the frame v, leaving the
\* snapshot files sh: back to the top of the loop, or, when the process was
\* interrupted inside the handler, through "except KeyboardInterrupt" and
\* the finally block.
Finish(key_, r, v, sh, dt) ==
    /\ budget' = budget - 1
    /\ now' = now + dt
    /\ disk' = r.disk
    /\ shots' = sh
    /\ shown' = v.display
    /\ written' = v.written
    /\ orig_x' = v.pointer.orig_x
    /\ orig_y' = v.pointer.orig_y
    /\ mouse_value' = v.pointer.mouse_value
    /\ last_save' = r.save
    /\ last_tick' = [key |-> key_, old |-> r.old]
    /\ IF r.interrupted
       THEN /\ Commit(Ended(Cleanup(
                        show_message(r.mem, Msg("Interrupted by user.", 0), now))))
            /\ pc' = "exited"
       ELSE /\ Commit(r.mem)
            /\ pc' = "main"
    /\ UNCHANGED << exit_code, camera_outs, frame_shape, boot_cfg, load_branch,
                    load_saved, mouse_x, mouse_y >>

\* An iteration whose handler makes no save and ends with memory m.
FinishPlain(key_, m, v, sh) ==
    Finish(key_, Handled(m, disk, NoSave, FALSE, 0), v, sh, 0)

\* An iteration that polls no key (or a key no branch matches).  The clock
\* is read as whole seconds and the iteration ends dt seconds after it
\* began (stream.read and waitKey block).  The iterations that handle a key
\* are taken to end in the second they began in.
TickNoKey ==
    TickGuard /\ \E cm \in BOOLEAN, wr \in Writes, dt \in 0..MESSAGE_DURATION :
        LET v == View(cm, wr)
        IN  Finish("none", Handled(v.mem, disk, NoSave, FALSE, 0), v, shots, dt)
TickHelp ==
    TickGuard /\ \E cm \in BOOLEAN, wr \in Writes :
        LET v == View(cm, wr) IN FinishPlain("h", KeyHelp(v.mem), v, shots)
TickGradient ==
    TickGuard /\ \E cm \in BOOLEAN, wr \in Writes :
        LET v == View(cm, wr) IN FinishPlain("g", KeyGradient(v.mem), v, shots)
TickRotate ==
    TickGuard /\ \E cm \in BOOLEAN, wr \in Writes, sout \in SaveOutcomes :
        LET v == View(cm, wr)
        IN  Finish("r", KeyRotate(v.mem, disk, now, sout), v, shots, 0)
TickPalette ==
    TickGuard /\ \E cm \in BOOLEAN, wr \in Writes, sout \in SaveOutcomes :
        LET v == View(cm, wr)
        IN  Finish("p", KeyPalette(v.mem, disk, now, sout), v, shots, 0)
TickInterpolation ==
    TickGuard /\ \E cm \in BOOLEAN, wr \in Writes, sout \in SaveOutcomes :
        LET v == View(cm, wr)
        IN  Finish("i", KeyInterpolation(v.mem, disk, now, sout), v, shots, 0)
TickZoomIn ==
    TickGuard /\ \E cm \in BOOLEAN, wr \in Writes, sout \in SaveOutcomes :
        LET v == View(cm, wr)
        IN  Finish("+", KeyZoomIn(v.mem, disk, now, sout), v, shots, 0)
TickZoomOut ==
    TickGuard /\ \E cm \in BOOLEAN, wr \in Writes, sout \in SaveOutcomes :
        LET v == View(cm, wr)
        IN  Finish("-", KeyZoomOut(v.mem, disk, now, sout), v, shots, 0)
TickSnapshot ==
    TickGuard /\ \E cm \in BOOLEAN, wr \in Writes, out \in SnapshotOutcomes :
        LET v == View(cm, wr)
            k == KeySnapshot(v.mem, v.clean, shots, now, out)
        IN  FinishPlain("s", k.mem, v, k.shots)
TickRecord ==
    TickGuard /\ \E cm \in BOOLEAN, wr \in Writes, out \in RecordOutcomes :
        /\ (is_recording => out \in {"released", "raises"})
        /\ (~is_recording => out # "released")
        /\ LET v == View(cm, wr)
           IN  Finish("v", Handled(KeyRecord(v.mem, v.clean, now, out), disk, NoSave,
                                   FALSE, IF is_recording THEN 1 ELSE 0),
                      v, shots, 0)

\* The ways out of the loop: 'q' (line 372), a failed stream.read (line
\* 245), and KeyboardInterrupt (line 442); each runs the finally block.
\* old is 1 when the loop was left while recording.
Leave(key_, m, v) ==
    /\ pc = "main"
    /\ Commit(Ended(Cleanup(m)))
    /\ pc' = "exited"
    /\ shown' = v.display
    /\ written' = v.written
    /\ orig_x' = v.pointer.orig_x
    /\ orig_y' = v.pointer.orig_y
    /\ mouse_value' = v.pointer.mouse_value
    /\ last_tick' = [key |-> key_, old |-> IF is_recording THEN 1 ELSE 0]
    /\ last_save' = NoSave
    /\ UNCHANGED << exit_code, budget, camera_outs, frame_shape, shots, now, disk,
                    boot_cfg, load_branch, load_saved, mouse_x, mouse_y >>

\* An iteration that has shown nothing.
NoView(m) ==
    [mem |-> m, clean |-> NoFrame, display |-> NoFrame, written |-> 0,
     pointer |-> HeldPointer]

\* Where an iteration can raise: in the pipeline or the overlay (before the
\* sink write) or in imshow (after it).
ErrorStages == {"pipeline", "imshow"}

\* An iteration in which a statement raises with nothing at the tick
\* boundary to catch it: the exception leaves the loop through the finally
\* block.
TickError_fatal ==
    \E cm \in BOOLEAN : Leave("error", Pipeline(Mem, cm), NoView(Mem))

\* An iteration in which a statement before the key poll raises: caught at
\* line 438, logged, and shown as a message.  The statement is in the
\* pipeline or the overlay (before the sink write, nothing is shown) or
\* is imshow (after the sink write).
TickError ==
    TickGuard /\ \E cm \in BOOLEAN, wr \in Writes, stage \in ErrorStages :
        LET v == IF stage = "imshow" THEN View(cm, wr)
                 ELSE NoView(Pipeline(Mem, cm))
        IN  FinishPlain("error",
                show_message(v.mem, Msg("An unexpected error occurred.", 0), now),
                [v EXCEPT !.display = NoFrame], shots)

TickQuit ==
    \E cm \in BOOLEAN, wr \in Writes :
        LET v == View(cm, wr) IN Leave("q", v.mem, v)
ReadFailure == Leave("read", Mem, NoView(Mem))
Interrupt ==
    Leave("interrupt", show_message(Mem, Msg("Interrupted by user.", 0), now),
          NoView(Mem))

Next ==
    \/ Startup
    \/ TickNoKey
    \/ TickHelp
    \/ TickGradient
    \/ TickRotate
    \/ TickPalette
    \/ TickInterpolation
    \/ TickZoomIn
    \/ TickZoomOut
    \/ TickSnapshot
    \/ TickRecord
    \/ TickError
    \/ TickQuit
    \/ ReadFailure
    \/ Interrupt

Spec == Init /\ [][Next]_vars

\* The same program started on the file a first start writes, explored for
\* more iterations of the main loop.
InitLoop == InitState("start", MaxLoopTicks, {JsonFile(Base, "lf")}, {<< >>})

SpecLoop == InitLoop /\ [][Next]_vars

\* The same program with the behaviour of the camera fixed beforehand:
\* camera_outs[a] is what attempt a of open_camera will do.
InitCamera ==
    InitState("start", MaxTicks, {JsonFile(Base, "lf"), JsonFile(Base, "crlf")},
              [1..3 -> CameraOutcomes])
CameraStartup == StartupWith({open_camera(camera_outs)})
NextCamera ==
    \/ CameraStartup
    \/ TickNoKey
    \/ TickRecord
    \/ TickError
    \/ TickQuit
    \/ ReadFailure
    \/ Interrupt
SpecCamera == InitCamera /\ [][NextCamera]_vars

\* The same program with the operator moving the pointer over the window.
\* mouse_callback (lines 230-233) runs inside waitKey, between two
\* iterations, once a window has been shown: the pointer goes to the
\* bottom-right pixel of the image on the screen, to its middle, to its
\* top-left pixel, or, dragged out of the window, to negative coordinates.
PointerPositions ==
    { << shown.w - 1, shown.h - 1 >>, << shown.w \div 2, shown.h \div 2 >>,
      << 0, 0 >>, << 0 - 3, 0 - 7 >> }

mouse_callback ==
    /\ pc = "main"
    /\ shown # NoFrame
    /\ \E p \in PointerPositions :
          /\ << mouse_x, mouse_y >> # p
          /\ mouse_x' = p[1]
          /\ mouse_y' = p[2]
    /\ UNCHANGED << pc, exit_code, budget, camera_outs, frame_shape, shots, now,
                    disk, mem_vars, obs_vars, mouse_value, orig_x, orig_y >>

InitPointer ==
    InitState("start", MaxPointerTicks,
              {JsonFile(Base, "lf"),
               JsonFile(With(Base, "scale_percent", Num(155)), "lf")},
              {<< >>})

NextPointer ==
    \/ Startup
    \/ mouse_callback
    \/ TickNoKey
    \/ TickRotate
    \/ TickZoomOut
    \/ TickQuit

SpecPointer == InitPointer /\ [][NextPointer]_vars

\* ------------------------------------------------------------------------
\* The settings store on its own: load, save what was loaded, load again
\* ------------------------------------------------------------------------
InitStore == InitState("store_load", 0, InitFiles, {<< >>})

store_frame == << exit_code, budget, camera_outs, frame_shape, shots, now,
                  camera_source, rotation_index, map_index,
                  interpolation_index, scale_percent, show_text, show_gradient,
                  is_recording, video_writer, rec_blink_state, last_blink_time,
                  sinks, stream, windows, last_message, last_message_time,
                  shown, written, boot_cfg, last_tick, mouse_vars >>

\* settings = load_settings(), from pc = at to pc = to.
StoreLoadStep(at, to) ==
    /\ pc = at
    /\ \E bout \in BackupOutcomes, sout \in SaveOutcomes :
          LET L == load_settings(disk, now, bout, sout)
          IN  /\ disk' = L.disk
              /\ load_branch' = L.branch
              /\ load_saved' = L.saved
              /\ settings' = IF L.interrupted THEN settings ELSE L.ret
              /\ pc' = IF L.interrupted THEN "exited" ELSE to
    /\ UNCHANGED << store_frame, last_save >>

StoreLoad == StoreLoadStep("store_load", "store_save")

\* atomic_save_json(SETTINGS_FILE, settings)
StoreSave ==
    /\ pc = "store_save"
    /\ \E sout \in SaveOutcomes :
          LET r == atomic_save_json(disk, settings, sout)
          IN  /\ disk' = r.disk
              /\ last_save' = SaveLog(disk, settings, r)
              /\ pc' = IF r.interrupted THEN "exited" ELSE "store_reload"
    /\ UNCHANGED << store_frame, settings, load_branch, load_saved >>

StoreReload == StoreLoadStep("store_reload", "store_done")

NextStore == StoreLoad \/ StoreSave \/ StoreReload

SpecStore == InitStore /\ [][NextStore]_vars

\* ------------------------------------------------------------------------
\* The Windows variant (src/GW192a_test_Windows.py)
\* ------------------------------------------------------------------------
win_default_settings ==
    ("rotation_index" :> IntV(1)) @@ ("map_index" :> IntV(0)) @@
    ("interpolation_index" :> IntV(0)) @@ ("scale_percent" :> IntV(600))

\* atomic_save_json of the variant: the same steps in the same order; a
\* failure prints a traceback instead of writing the log.
win_atomic_save_json(d, data, out) == atomic_save_json(d, data, out)

\* The loop of load_settings: only missing keys are filled in.
win_MergeDefaults(data) ==
    [k \in DOMAIN data \cup DOMAIN win_default_settings |->
        IF k \in DOMAIN data THEN data[k] ELSE win_default_settings[k]]

\* load_settings() of the variant: no backup, no type check.
win_load_settings(d, sout) ==
    IF d.cfg.kind = "absent" THEN
        LET r == win_atomic_save_json(d, win_default_settings, sout)
        IN  [ret |-> win_default_settings, disk |-> r.disk, branch |-> "created",
             saved |-> SaveResult(r), interrupted |-> r.interrupted]
    ELSE IF d.cfg.kind = "json" THEN
        LET data   == json_load(d.cfg.data)
            merged == win_MergeDefaults(data)
        IN  IF merged # data THEN
                LET r == win_atomic_save_json(d, merged, sout)
                IN  [ret |-> merged, disk |-> r.disk, branch |-> "merged",
                     saved |-> SaveResult(r), interrupted |-> r.interrupted]
            ELSE [ret |-> data, disk |-> d, branch |-> "kept",
                  saved |-> "none", interrupted |-> FALSE]
    ELSE
        LET r == win_atomic_save_json(d, win_default_settings, sout)
        IN  [ret |-> win_default_settings, disk |-> r.disk, branch |-> "reset",
             saved |-> SaveResult(r), interrupted |-> r.interrupted]

\* Lines 104-108 of the variant: the configuration taken from the loaded
\* dict as it is.
win_Configure(m, loaded) ==
    LET ri == PyInt(Get(loaded, "rotation_index", IntV(1)))
        mi == PyInt(Get(loaded, "map_index", IntV(0)))
        ii == PyInt(Get(loaded, "interpolation_index", IntV(0)))
        sp == PyInt(Get(loaded, "scale_percent", IntV(600)))
    IN  [ok  |-> ri.ok /\ mi.ok /\ ii.ok /\ sp.ok,
         mem |-> [m EXCEPT !.settings = loaded,
                           !.rotation_index = ri.val,
                           !.map_index = mi.val,
                           !.interpolation_index = ii.val,
                           !.scale_percent = sp.val]]

\* A Python list of length n accepts the indices -n .. n-1.
ListIndex(ix, n) == ix >= 0 - n /\ ix < n

\* int(cameraResolution * scale_percent / 100) (lines 180-181)
win_dim(c, sp) ==
    IF c * sp >= 0 THEN (c * sp) \div 100 ELSE 0 - ((0 - c * sp) \div 100)

\* Whether lines 180-196 run without raising: the three list lookups and
\* the resize to dim.
win_Valid(m) ==
    /\ ListIndex(m.rotation_index, Len(rotation_modes))
    /\ ListIndex(m.map_index, Len(color_maps))
    /\ ListIndex(m.interpolation_index, Len(interpolation_type))
    /\ win_dim(cameraResolution_Horizontal, m.scale_percent) >= 1
    /\ win_dim(cameraResolution_Vertical, m.scale_percent) >= 1

\* Lines 180-196: frame after the resize.
win_frame(m) ==
    [w |-> win_dim(cameraResolution_Horizontal, m.scale_percent),
     h |-> win_dim(cameraResolution_Vertical, m.scale_percent),
     marks |-> {}]

\* Lines 199-248 of one iteration: frame is written to the sink (an
\* unopened writer drops it), then the REC indicator, the footer, the help
\* text and the message are drawn on the same image, which is shown.
win_View(m, t) ==
    LET f  == win_frame(m)
        rec == m.is_recording /\ m.video_writer # 0
        toggle == rec /\ t - m.last_blink_time >= BLINK_INTERVAL
        blink  == IF toggle THEN ~m.rec_blink_state ELSE m.rec_blink_state
        wrote  == rec /\ m.sinks[m.video_writer].open
        m1 == [m EXCEPT !.rec_blink_state = blink,
                        !.last_blink_time = IF toggle THEN t ELSE @,
                        !.windows = "open"]
        m2 == IF wrote THEN [m1 EXCEPT !.sinks[m.video_writer].frames = @ \cup {f}]
              ELSE m1
    IN  [mem |-> m2, clean |-> f,
         display |-> [f EXCEPT !.marks =
                        {"footer"}
                        \cup (IF rec /\ blink THEN {"rec"} ELSE {})
                        \cup (IF m.show_text THEN {"help"} ELSE {})
                        \cup (IF MessageDrawn(m, t) THEN {"message"} ELSE {})],
         written |-> IF wrote THEN m.video_writer ELSE 0]

win_KeyInterpolation(m, d, t, sout) ==
    LET ii == (m.interpolation_index + 1) % Len(interpolation_type)
    IN  Persist([m EXCEPT !.interpolation_index = ii], d, "interpolation_index", ii,
                Msg("Interpolation type", ii + 1), t, sout, m.interpolation_index)

\* '+' and '-' (lines 276-283): not disabled while recording.
win_KeyZoomIn(m, d, t, sout) ==
    LET sp == Min(m.scale_percent + step, max_scale)
    IN  Persist([m EXCEPT !.scale_percent = sp], d, "scale_percent", sp,
                Msg("Scale", sp), t, sout, m.scale_percent)

win_KeyZoomOut(m, d, t, sout) ==
    LET sp == Max(m.scale_percent - step, min_scale)
    IN  Persist([m EXCEPT !.scale_percent = sp], d, "scale_percent", sp,
                Msg("Scale", sp), t, sout, m.scale_percent)

\* 's' (lines 284-289): cv2.imwrite(filename, frame) with the frame as it
\* was shown; nothing is reported.
win_KeySnapshot(df, sh, t, out) ==
    IF out = "written" THEN (t :> df) @@ sh ELSE sh

\* 'v' (lines 290-311).  Starting: the writer is taken as it comes, opened
\* or not ("opened", "not_opened").  Stopping: release().
win_RecordOutcomes == {"opened", "not_opened", "released"}
win_KeyRecord(m, df, t, out) ==
    IF ~m.is_recording THEN
        LET sk == Append(m.sinks, [name |-> t, open |-> out = "opened",
                                   size |-> << df.w, df.h >>, frames |-> {}])
        IN  show_message([m EXCEPT !.sinks = sk, !.video_writer = Len(sk),
                                   !.is_recording = TRUE],
                         Msg("Recording started", t), t)
    ELSE
        LET m1 == [m EXCEPT !.is_recording = FALSE]
        IN  IF m1.video_writer = 0 THEN m1
            ELSE show_message([CloseSink(m1) EXCEPT !.video_writer = 0],
                              Msg("Recording stopped", m1.sinks[m1.video_writer].name), t)

\* Lines 104-172: load_settings(), the int() conversions, and the capture
\* source opened once; exit() when it is not open.
WinStartup ==
    /\ pc = "win_start"
    /\ \E sout \in SaveOutcomes, opened \in BOOLEAN :
          LET L == win_load_settings(disk, sout)
              C == win_Configure(Mem, L.ret)
          IN  /\ disk' = L.disk
              /\ load_branch' = L.branch
              /\ load_saved' = L.saved
              /\ last_save' = IF L.saved = "none" THEN NoSave
                              ELSE [result |-> L.saved, before |-> disk.cfg,
                                    new |-> Dumped(L.ret), tmp |-> disk.tmp]
              /\ IF L.interrupted
                 THEN /\ Commit(Ended(Mem)) /\ pc' = "exited" /\ exit_code' = 130
                      /\ frame_shape' = frame_shape
                 ELSE IF ~C.ok
                 THEN /\ Commit(Ended(Mem)) /\ pc' = "exited" /\ exit_code' = 1
                      /\ frame_shape' = frame_shape
                 ELSE IF ~opened
                 THEN /\ Commit(Ended(Mem)) /\ pc' = "exited" /\ exit_code' = 0
                      /\ frame_shape' = frame_shape
                 ELSE /\ Commit([C.mem EXCEPT !.stream = "open"])
                      /\ pc' = "win_main" /\ exit_code' = 0
                      /\ frame_shape' \in FrameShapes
    /\ UNCHANGED << budget, camera_outs, shots, now, shown, written, boot_cfg,
                    last_tick, mouse_vars >>

\* An iteration of the variant's loop begins and its pipeline does not raise.
WinTickGuard == pc = "win_main" /\ budget > 0 /\ win_Valid(Mem)

\* The end of an iteration of the variant that handled key_.  An interrupt
\* inside the handler ends the process: nothing catches it.
WinFinish(key_, r, v, sh, dt) ==
    /\ budget' = budget - 1
    /\ now' = now + dt
    /\ disk' = r.disk
    /\ shots' = sh
    /\ shown' = v.display
    /\ written' = v.written
    /\ last_save' = r.save
    /\ last_tick' = [key |-> key_, old |-> r.old]
    /\ IF r.interrupted
       THEN /\ Commit(Ended(r.mem)) /\ pc' = "exited" /\ exit_code' = 130
       ELSE /\ Commit(r.mem) /\ pc' = "win_main" /\ exit_code' = exit_code
    /\ UNCHANGED << camera_outs, frame_shape, boot_cfg, load_branch, load_saved,
                    mouse_vars >>

WinFinishPlain(key_, m, v, sh) ==
    WinFinish(key_, Handled(m, disk, NoSave, FALSE, 0), v, sh, 0)

WinTickNoKey ==
    WinTickGuard /\ \E dt \in 0..MESSAGE_DURATION :
        LET v == win_View(Mem, now)
        IN  WinFinish("none", Handled(v.mem, disk, NoSave, FALSE, 0), v, shots, dt)
WinTickHelp ==
    WinTickGuard /\
        LET v == win_View(Mem, now) IN WinFinishPlain("h", KeyHelp(v.mem), v, shots)
WinTickRotate ==
    WinTickGuard /\ \E sout \in SaveOutcomes :
        LET v == win_View(Mem, now)
        IN  WinFinish("r", KeyRotate(v.mem, disk, now, sout), v, shots, 0)
WinTickPalette ==
    WinTickGuard /\ \E sout \in SaveOutcomes :
        LET v == win_View(Mem, now)
        IN  WinFinish("p", KeyPalette(v.mem, disk, now, sout), v, shots, 0)
WinTickInterpolation ==
    WinTickGuard /\ \E sout \in SaveOutcomes :
        LET v == win_View(Mem, now)
        IN  WinFinish("i", win_KeyInterpolation(v.mem, disk, now, sout), v, shots, 0)
WinTickZoomIn ==
    WinTickGuard /\ \E sout \in SaveOutcomes :
        LET v == win_View(Mem, now)
        IN  WinFinish("+", win_KeyZoomIn(v.mem, disk, now, sout), v, shots, 0)
WinTickZoomOut ==
    WinTickGuard /\ \E sout \in SaveOutcomes :
        LET v == win_View(Mem, now)
        IN  WinFinish("-", win_KeyZoomOut(v.mem, disk, now, sout), v, shots, 0)
WinTickSnapshot ==
    WinTickGuard /\ \E out \in {"written", "not_written"} :
        LET v == win_View(Mem, now)
        IN  WinFinishPlain("s", v.mem, v, win_KeySnapshot(v.display, shots, now, out))
WinTickRecord ==
    WinTickGuard /\ \E out \in win_RecordOutcomes :
        /\ (is_recording <=> out = "released")
        /\ LET v == win_View(Mem, now)
           IN  WinFinish("v", Handled(win_KeyRecord(v.mem, v.display, now, out), disk,
                                      NoSave, FALSE, IF is_recording THEN 1 ELSE 0),
                         v, shots, 0)

\* The process of the variant ends with status code: its memory is gone.
\* After the loop (lines 314-316) the stream and the writer are released;
\* an uncaught exception or an interrupt releases nothing.
WinLeave(key_, m, code) ==
    /\ pc = "win_main"
    /\ Commit(Ended(m))
    /\ pc' = "exited"
    /\ exit_code' = code
    /\ shown' = NoFrame
    /\ written' = 0
    /\ last_tick' = [key |-> key_, old |-> IF is_recording THEN 1 ELSE 0]
    /\ last_save' = NoSave
    /\ UNCHANGED << budget, camera_outs, frame_shape, shots, now, disk, boot_cfg,
                    load_branch, load_saved, mouse_vars >>

win_Cleanup(m) == [CloseSink(m) EXCEPT !.stream = "released"]

WinTickQuit    == win_Valid(Mem) /\ WinLeave("q", win_Cleanup(win_View(Mem, now).mem), 0)
WinReadFailure == WinLeave("read", win_Cleanup(Mem), 0)
\* A list lookup or the resize raises: nothing catches it.
WinCrash       == ~win_Valid(Mem) /\ WinLeave("error", Mem, 1)
WinInterrupt   == WinLeave("interrupt", Mem, 130)

NextWin ==
    \/ WinStartup
    \/ WinTickNoKey
    \/ WinTickHelp
    \/ WinTickRotate
    \/ WinTickPalette
    \/ WinTickInterpolation
    \/ WinTickZoomIn
    \/ WinTickZoomOut
    \/ WinTickSnapshot
    \/ WinTickRecord
    \/ WinTickQuit
    \/ WinReadFailure
    \/ WinCrash
    \/ WinInterrupt

InitWin == InitState("win_start", MaxTicks, InitFiles, {<< >>})
SpecWin == InitWin /\ [][NextWin]_vars

\* ------------------------------------------------------------------------
\* Properties
\* ------------------------------------------------------------------------
\* The current run has finished its start-up code and handled nothing yet.
JustLoaded == pc # "start" /\ load_branch # "" /\ last_tick = NoTick

\* The JSON member k of the settings file the run found, or NoMember.
NoMember == [j |-> "missing", i |-> 0, s |-> ""]
BootMember(k) ==
    IF boot_cfg.kind = "json" /\ k \in DOMAIN boot_cfg.data
    THEN boot_cfg.data[k] ELSE NoMember

\* What the next load_settings() would do with the settings file as it is.
NextLoadBranch == load_settings(disk, now, "ok", "ok").branch

\* C1: at every tick boundary of the main loop, whatever the settings file
\* held at start-up and whatever keys were handled since, rotation_index,
\* map_index and interpolation_index are valid (0-based) indices of
\* rotation_modes, color_maps and interpolation_type.
C1_IndicesInRange ==
    pc = "main" =>
        /\ 0 <= rotation_index /\ rotation_index < 4
        /\ 0 <= map_index /\ map_index < 22
        /\ 0 <= interpolation_index /\ interpolation_index < 8
        /\ rotation_index + 1 \in DOMAIN rotation_modes
        /\ map_index + 1 \in DOMAIN color_maps
        /\ interpolation_index + 1 \in DOMAIN interpolation_type

\* C1 witness: a palette key handled after a start from a file whose
\* map_index was 45.
C1_Witness ==
    /\ pc = "main"
    /\ BootMember("map_index") = Num(45)
    /\ BootMember("rotation_index") = Num(0 - 5)
    /\ last_tick.key = "p"

\* C2: scale_percent is within [min_scale, max_scale] = [150, 1000] after
\* the start-up load for any integer in the settings file (50000 loads as
\* 1000) and after every zoom command.
C2_ScaleInRange ==
    /\ pc = "main" => min_scale <= scale_percent /\ scale_percent <= max_scale
    /\ (pc = "main" /\ JustLoaded /\ BootMember("scale_percent") = Num(50000))
          => scale_percent = 1000

\* C2 witness: zoom-in handled after a start from a file holding 50000.
C2_Witness ==
    /\ pc = "main"
    /\ BootMember("scale_percent") = Num(50000)
    /\ last_tick.key = "+"
    /\ scale_percent = max_scale

\* C3 as stated: after a save that failed or was interrupted at any step,
\* the settings file holds the complete previous content or the complete
\* new content, and the next load_settings() parses it.
C3_AsStated ==
    last_save.result \in {"failed", "interrupted"} =>
        /\ disk.cfg \in {last_save.before, last_save.new}
        /\ disk.cfg.kind # "absent" => NextLoadBranch \in {"kept", "merged"}

\* C3 amended: after any save (completed, failed or interrupted at any
\* step) the settings file holds the complete previous content or the
\* complete new content; the next load_settings() parses it whenever the
\* new content was put in place or the previous content was itself a
\* parseable settings object.
C3_AtomicSave ==
    last_save.result # "none" =>
        /\ disk.cfg \in {last_save.before, last_save.new}
        /\ last_save.result = "ok" => disk.cfg = last_save.new
        /\ last_save.result = "failed" => disk.cfg = last_save.before
        /\ (disk.cfg = last_save.new \/ last_save.before.kind = "json")
              => NextLoadBranch \in {"kept", "merged"}

\* C3 witness: a save interrupted while writing: a partial temporary file is
\* left behind and the settings file still holds its previous content.
C3_Witness ==
    /\ last_save.result = "interrupted"
    /\ Partial \in disk.tmp
    /\ disk.cfg = last_save.before
    /\ last_save.before.kind = "json"
    /\ last_save.new # last_save.before

\* The configuration field a persisting key changes, its value now, and the
\* value and message the handler computes from the value before.
KeyField(k) ==
    CASE k = "r" -> "rotation_index"
      [] k = "p" -> "map_index"
      [] k = "i" -> "interpolation_index"
      [] OTHER   -> "scale_percent"
FieldNow(k) ==
    CASE k = "r" -> rotation_index
      [] k = "p" -> map_index
      [] k = "i" -> interpolation_index
      [] OTHER   -> scale_percent
Expected(k, old) ==
    CASE k = "r" -> (old + 1) % 4
      [] k = "p" -> (old + 1) % 22
      [] k = "i" -> (old + 1) % 8
      [] k = "+" -> IF old + 50 < 1000 THEN old + 50 ELSE 1000
      [] OTHER   -> IF old - 50 > 150 THEN old - 50 ELSE 150
ExpectedMsg(k, v) ==
    CASE k = "r" -> Msg("Rotate", v * 90)
      [] k = "p" -> Msg("Color palette", v + 1)
      [] k = "i" -> Msg("Interpolation", v + 1)
      [] OTHER   -> Msg("Scale", v)

Recognized ==
    {"gw192a_camera_index", "rotation_index", "map_index",
     "interpolation_index", "scale_percent"}

\* Python's == on two values: True == 1 and False == 0.
PyEq(a, b) ==
    IF a.t \in {"int", "bool"} /\ b.t \in {"int", "bool"} THEN a.i = b.i ELSE a = b

\* C5: the configuration c returned by load_settings(), once saved with
\* atomic_save_json, is what the next load_settings() returns on every
\* recognized key, and that second load writes nothing (no backup, no
\* temporary file, the settings file untouched).
C5_RoundTrip ==
    [][ (pc = "store_reload" /\ last_save.result = "ok") =>
            /\ pc' = "store_done"
            /\ \A k \in Recognized :
                  /\ k \in DOMAIN settings /\ k \in DOMAIN settings'
                  /\ PyEq(settings'[k], settings[k])
            /\ disk' = disk
            /\ load_branch' = "kept"
            /\ load_saved' = "none" ]_vars

\* C5 witness: the round trip completed from a file whose rotation_index
\* was a fraction and had to be replaced by the default.
C5_Witness ==
    /\ pc = "store_done"
    /\ last_save.result = "ok"
    /\ BootMember("rotation_index") = Frac(2)
    /\ settings["rotation_index"] = IntV(1)
    /\ disk.cfg # boot_cfg

\* The text of the hard-coded defaults, member by member.
DefaultTokens ==
    ("_comment_1" :> Str("------------ GOYOJO GW192A CAMERA INDEX ---------------------")) @@
    ("_comment_2" :> Str("")) @@
    ("_comment_WINDOWS_SYSTEM" :> Str("For Windows use numeric index")) @@
    ("_comment_3" :> Str("")) @@
    ("_comment_LINUX_SYSTEM" :> Str("For Linux/Raspberry Pi use device path instead")) @@
    ("_comment_4" :> Str("")) @@
    ("_comment_5" :> Str("-------------------------------------------------------------")) @@
    ("gw192a_camera_index" :> Num(1)) @@
    ("rotation_index" :> Num(1)) @@
    ("map_index" :> Num(0)) @@
    ("interpolation_index" :> Num(0)) @@
    ("scale_percent" :> Num(650))

\* C6 as stated: when no settings file exists, load_settings() returns the
\* defaults, the settings file exists afterwards with exactly that content,
\* and no backup file is created.
C6_AsStated ==
    (JustLoaded /\ boot_cfg = Absent /\ load_saved # "interrupted") =>
        /\ pc = "main" => settings = default_settings
        /\ disk.cfg = JsonFile(DefaultTokens, "lf")
        /\ disk.backups = {}

\* C6 amended: when no settings file exists, load_settings() returns the
\* defaults and tries to save them; when that save succeeds the settings
\* file exists afterwards with exactly that content, when it fails there is
\* still no settings file; no backup file is created on this path.
C6_FirstStart ==
    (JustLoaded /\ boot_cfg = Absent /\ load_saved # "interrupted") =>
        /\ load_branch = "created"
        /\ pc = "main" => settings = default_settings
        /\ load_saved \in {"ok", "failed"}
        /\ load_saved = "ok" => disk.cfg = JsonFile(DefaultTokens, "lf")
        /\ load_saved = "failed" => disk.cfg = Absent
        /\ disk.backups = {}

\* C6 witness: a first start that wrote the defaults and reached the loop.
C6_Witness ==
    /\ JustLoaded
    /\ pc = "main"
    /\ boot_cfg = Absent
    /\ load_saved = "ok"
    /\ disk.cfg.kind = "json"

\* The dict json.load made of the settings file the run found, and its
\* keys among universe that are missing or not of the default's type.
BootData == json_load(boot_cfg.data)
BadKeys(universe) ==
    {k \in universe :
        k \notin DOMAIN BootData \/ ~IsInstance(BootData[k], default_settings[k].t)}

\* The dict with exactly the keys in bad set to their defaults.
Recovered(bad) ==
    [k \in DOMAIN BootData \cup bad |->
        IF k \in bad THEN default_settings[k] ELSE BootData[k]]

\* C7 as stated: from a settings file that parses as an object, exactly the
\* recognized keys that are missing or of the wrong type are set to their
\* defaults, every other key keeps its on-disk value, the merged result is
\* persisted and returned; a file holding every recognized key with a valid
\* type is returned as is without any write.
C7_AsStated ==
    (JustLoaded /\ boot_cfg.kind = "json" /\ load_saved # "interrupted") =>
        LET bad == BadKeys(Recognized)
        IN  /\ pc = "main" => settings = Recovered(bad)
            /\ (pc = "main" /\ bad # {}) => disk.cfg = Dumped(settings)
            /\ bad = {} => (disk.cfg = boot_cfg /\ disk.backups = {}
                            /\ load_saved = "none")

\* C7 amended: the keys load_settings() checks are all the keys of
\* default_settings, the "_comment_*" keys included.  Exactly those among
\* them that are missing or not an instance of the default's type are set
\* to their defaults, every other key (unknown extra keys included) keeps
\* its on-disk value, and the merged result is returned; it is persisted
\* when the save succeeds (the file is untouched when the save fails).  A
\* file that holds every key of default_settings with a valid type is
\* returned as is without any write.
C7_PartialRecovery ==
    (JustLoaded /\ boot_cfg.kind = "json" /\ load_saved # "interrupted") =>
        LET bad == BadKeys(DOMAIN default_settings)
        IN  /\ pc = "main" => settings = Recovered(bad)
            /\ bad # {} =>
                  /\ load_branch = "merged"
                  /\ load_saved \in {"ok", "failed"}
                  /\ (pc = "main" /\ load_saved = "ok") => disk.cfg = Dumped(settings)
                  /\ load_saved = "failed" => disk.cfg = boot_cfg
            /\ bad = {} => (disk.cfg = boot_cfg /\ disk.backups = {}
                            /\ load_saved = "none" /\ load_branch = "kept")

\* C7 witness: a file without scale_percent and with an unknown key: the
\* default fills the gap and the unknown key is kept, in memory and on disk.
C7_Witness ==
    /\ JustLoaded
    /\ pc = "main"
    /\ BootMember("scale_percent") = NoMember
    /\ BootMember("user_note") = Frac(3)
    /\ settings["scale_percent"] = IntV(650)
    /\ settings["user_note"] = FloatV(3)
    /\ load_saved = "ok"
    /\ disk.cfg.data["user_note"] = Frac(3)

\* C8: whenever load_settings() has replaced an existing settings file, a
\* backup file holding the verbatim previous content exists.
C8_BackupBeforeOverwrite ==
    (JustLoaded /\ boot_cfg.kind # "absent" /\ disk.cfg # boot_cfg) =>
        \E b \in disk.backups : b.file = boot_cfg

\* C9: a device-path string under gw192a_camera_index is returned unchanged
\* by load_settings(), causes no rewrite of the settings file, and is the
\* source passed to open_camera.
C9_CameraPathKept ==
    (JustLoaded /\ pc = "main"
        /\ BootMember("gw192a_camera_index") = Str("/dev/video0")) =>
        /\ settings["gw192a_camera_index"] = StrV("/dev/video0")
        /\ camera_source = StrV("/dev/video0")
        /\ disk.cfg = boot_cfg

\* The sinks that are open.
OpenSinks == {n \in DOMAIN sinks : sinks[n].open}

\* At most one sink is open; at a tick boundary is_recording holds exactly
\* when video_writer is not None, and video_writer is then the open sink.
OneSession ==
    /\ Cardinality(OpenSinks) <= 1
    /\ pc = "main" =>
          /\ is_recording <=> video_writer # 0
          /\ is_recording => OpenSinks = {video_writer}
          /\ ~is_recording => OpenSinks = {}

\* A step that handles a toggle-record key right after an iteration that
\* handled a toggle-record key pressed in Idle.
SecondToggle ==
    /\ pc = "main"
    /\ last_tick = [key |-> "v", old |-> 0]
    /\ last_tick'.key = "v"
    /\ budget' = budget - 1

\* A step that handles a toggle-record key pressed in Idle.
FirstToggle ==
    /\ pc = "main"
    /\ ~is_recording
    /\ last_tick'.key = "v"
    /\ budget' = budget - 1

\* What the second of two toggles does to the session the first opened.
StopsTheSession ==
    /\ is_recording
    /\ video_writer = Len(sinks)
    /\ ~is_recording'
    /\ video_writer' = 0
    /\ Len(sinks') = Len(sinks)
    /\ ~sinks'[video_writer].open
    /\ pc' = "main"

\* C10 as stated: at most one sink is open at any time, is_recording holds
\* exactly when video_writer is not None, and two toggle-record commands in
\* succession starting from Idle create exactly one sink, release it, and
\* end in Idle with video_writer None.
C10_AsStated ==
    /\ []OneSession
    /\ [][SecondToggle => StopsTheSession]_vars

\* C10 amended: at most one sink is open at any time and is_recording holds
\* exactly when video_writer is not None; a toggle-record command in Idle
\* creates one sink when the writer opens and none when it does not; two
\* toggle-record commands in succession starting from Idle, the first of
\* which opened its sink, create exactly one sink, release it, and end in
\* Idle with video_writer None.
C10_RecordingLifecycle ==
    /\ []OneSession
    /\ [][FirstToggle =>
            \/ /\ is_recording'
               /\ Len(sinks') = Len(sinks) + 1
               /\ video_writer' = Len(sinks')
            \/ /\ ~is_recording'
               /\ sinks' = sinks
               /\ video_writer' = 0
               /\ last_message' = Msg("Failed to start recording.", 0)]_vars
    /\ [][(SecondToggle /\ is_recording) => StopsTheSession]_vars

\* C10 witness: two toggles in succession: the sink the first one created
\* is closed and the loop is back in Idle.
C10_Witness ==
    /\ pc = "main"
    /\ last_tick = [key |-> "v", old |-> 1]
    /\ ~is_recording
    /\ video_writer = 0
    /\ Len(sinks) = 1
    /\ ~sinks[1].open
    /\ budget = MaxLoopTicks - 2

\* The loop of either script is at a tick boundary.
InLoop == pc \in {"main", "win_main"}

\* C11: when the video sink fails to open on a toggle-record command issued
\* in Idle, the state stays Idle (is_recording False, video_writer None),
\* the message 'Failed to start recording.' is shown, and no frame is
\* written to any sink while none is open.
C11_FailedStartStaysIdle ==
    /\ []((InLoop /\ last_tick = [key |-> "v", old |-> 0] /\ OpenSinks = {}) =>
             /\ ~is_recording
             /\ video_writer = 0
             /\ last_message = Msg("Failed to start recording.", 0))
    /\ [][OpenSinks = {} => written' = 0]_vars

\* C12: in both script variants, every image written to a video sink and
\* every image written to a snapshot file is the recordable frame, with no
\* overlay drawn on it.
C12_NoOverlayRecorded ==
    /\ \A n \in DOMAIN sinks : \A f \in sinks[n].frames : f.marks = {}
    /\ \A n \in DOMAIN shots : shots[n].marks = {}

\* C13: on every way out of the main loop (quit key, stream read failure,
\* which ends the loop without retry, external interrupt) every video sink
\* is released, the capture source is released and the windows are
\* destroyed before the process has exited; a session still Recording at
\* shutdown is closed.
C13_CleanupOnEveryExit ==
    /\ [][(pc = "main" /\ pc' = "exited") =>
            /\ \A n \in DOMAIN sinks' : ~sinks'[n].open
            /\ Len(sinks') = Len(sinks)
            /\ stream' = "released"
            /\ windows' = "destroyed"]_vars
    /\ [](last_tick.key \in {"q", "read", "interrupt"} => pc = "exited")

\* C13 witness: the loop was interrupted while Recording, and the session's
\* sink is closed.
C13_Witness ==
    /\ pc = "exited"
    /\ last_tick = [key |-> "interrupt", old |-> 1]
    /\ Len(sinks) = 1
    /\ ~sinks[1].open
    /\ stream = "released"
    /\ windows = "destroyed"

\* A step that is an iteration in which an unexpected error was raised.
ErrorTick == pc = "main" /\ last_tick'.key = "error" /\ budget' = budget - 1

\* What an iteration with an unexpected error leaves: the loop at its next
\* tick, the message shown, configuration and recording state as they were
\* or, for map_index, reset to 0 by the palette fallback.
ErrorSurvived ==
    /\ pc' = "main"
    /\ last_message' = Msg("An unexpected error occurred.", 0)
    /\ last_message_time' = now
    /\ rotation_index' = rotation_index
    /\ interpolation_index' = interpolation_index
    /\ scale_percent' = scale_percent
    /\ map_index' \in {map_index, 0}
    /\ settings' = settings
    /\ disk' = disk
    /\ is_recording' = is_recording
    /\ video_writer' = video_writer
    /\ (is_recording' <=> video_writer' # 0)
    /\ Len(sinks') = Len(sinks)
    /\ \A n \in DOMAIN sinks : sinks'[n].open = sinks[n].open

FirstOpened(outs) ==
    IF \E a \in 1..3 : outs[a] = "opened"
    THEN CHOOSE a \in 1..3 :
            outs[a] = "opened" /\ \A b \in 1..(a - 1) : outs[b] # "opened"
    ELSE 0

\* C15: open_camera makes at most 3 attempts, returns the stream of the
\* first attempt that reports opened, and returns None only when all 3
\* failed; then the process exits with status 1 without entering the main
\* loop; and no open happens after start-up.
C15_BoundedCameraRetry ==
    /\ [](pc # "start" =>
            /\ open_camera(camera_outs) = FirstOpened(camera_outs)
            /\ open_camera(camera_outs) \in 0..3
            /\ (open_camera(camera_outs) = 0 <=>
                   \A a \in 1..3 : camera_outs[a] \in {"closed", "raises"})
            /\ FirstOpened(camera_outs) = 0 =>
                  /\ pc = "exited" /\ exit_code = 1
                  /\ stream = "none" /\ windows = "none"
                  /\ budget = MaxTicks /\ last_tick = NoTick /\ shown = NoFrame
            /\ (FirstOpened(camera_outs) # 0 /\ last_tick = NoTick) =>
                  pc = "main" /\ stream = "open")
    /\ [][pc # "start" => (stream' = "open" => stream = "open")]_vars

\* C15 witness: the first two attempts failed, one by raising, the third
\* opened, and the main loop was entered.
C15_Witness ==
    /\ pc = "main"
    /\ camera_outs = << "raises", "closed", "opened" >>
    /\ stream = "open"
    /\ last_tick = NoTick

\* The JSON member k of the settings file as it is now, or NoMember.
FileMember(k) ==
    IF disk.cfg.kind = "json" /\ k \in DOMAIN disk.cfg.data
    THEN disk.cfg.data[k] ELSE NoMember

\* A step that is an iteration handling key k pressed in Idle and ending at
\* the next tick.
IdleKey(k) ==
    /\ pc = "main" /\ ~is_recording
    /\ last_tick'.key = k /\ budget' = budget - 1
    /\ pc' = "main"

\* C16: a zoom-in command issued while Idle with scale_percent = max_scale
\* leaves scale_percent unchanged, still shows the 'Scale: ...' message, and
\* leaves the scale_percent value in the settings file unchanged;
\* symmetrically for zoom-out at min_scale.
C16_ZoomAtLimit ==
    /\ [][(IdleKey("+") /\ scale_percent = max_scale) =>
            /\ scale_percent' = max_scale
            /\ last_message' = Msg("Scale", max_scale)
            /\ FileMember("scale_percent")' = FileMember("scale_percent")]_vars
    /\ [][(IdleKey("-") /\ scale_percent = min_scale) =>
            /\ scale_percent' = min_scale
            /\ last_message' = Msg("Scale", min_scale)
            /\ FileMember("scale_percent")' = FileMember("scale_percent")]_vars

\* A message has been set and is within its display time.
Visible == last_message.text # "" /\ now - last_message_time < 2

\* The keys whose handler always ends with show_message, and the iteration
\* with a caught error.
MessageKeys == {"r", "p", "i", "s", "error"}

\* C17: an iteration draws the transient message exactly when a message has
\* been set and now - last_message_time < MESSAGE_DURATION (2 s); a new
\* show_message replaces the text and restarts the 2-second window whether
\* or not the previous message had expired; a message that has expired is
\* not drawn again unless a new one is set.
C17_MessageWindow ==
    /\ [][(pc = "main" /\ shown' # NoFrame) =>
            ("message" \in shown'.marks <=> Visible)]_vars
    /\ [][(pc = "main" /\ pc' = "main" /\ last_tick'.key \in MessageKeys
            /\ budget' = budget - 1) =>
            /\ last_message'.text # ""
            /\ last_message_time' = now
            /\ Visible']_vars
    /\ [][(pc = "main" /\ pc' = "main"
            /\ << last_message, last_message_time >>' # << last_message, last_message_time >>) =>
            last_message_time' = now /\ last_message'.text # ""]_vars
    /\ [][(pc = "main" /\ pc' = "main" /\ ~Visible
            /\ << last_message, last_message_time >>' = << last_message, last_message_time >>) =>
            ~Visible']_vars

\* C17 witness: a message set two seconds ago was not drawn by the last
\* iteration.
C17_Witness ==
    /\ pc = "main"
    /\ last_message.text # ""
    /\ now - last_message_time >= 2
    /\ shown # NoFrame
    /\ "message" \notin shown.marks
    /\ last_tick.key = "none"

\* C18: every frame appended to a video sink has exactly the pixel
\* dimensions the sink was created with, whatever keys were handled between
\* start and stop and whatever the shape of the captured frames.
C18_FramesFitTheSink ==
    \A n \in DOMAIN sinks :
        \A f \in sinks[n].frames : << f.w, f.h >> = sinks[n].size

\* A step that is an iteration handling a zoom key while Recording.
ZoomWhileRecording ==
    /\ pc = "main" /\ is_recording
    /\ last_tick'.key \in {"+", "-"} /\ budget' = budget - 1

\* C19: zoom-in and zoom-out keys received while a recording session is
\* active are no-ops: scale_percent, the settings dict, the settings file,
\* the transient message and the recording state are left unchanged.
C19_ZoomDisabledWhileRecording ==
    [][ZoomWhileRecording =>
          /\ pc' = "main"
          /\ scale_percent' = scale_percent
          /\ settings' = settings
          /\ disk' = disk
          /\ last_save' = NoSave
          /\ last_message' = last_message
          /\ last_message_time' = last_message_time
          /\ is_recording'
          /\ video_writer' = video_writer
          /\ Len(sinks') = Len(sinks)
          /\ sinks'[video_writer].open]_vars

\* C19 witness: a zoom-in key was handled while Recording.
C19_Witness ==
    /\ pc = "main"
    /\ last_tick.key = "+"
    /\ is_recording
    /\ video_writer = 1
    /\ last_message = Msg("Recording started", sinks[1].name)
    /\ scale_percent = 650

\* The four persisted configuration fields.
PersistedFields ==
    ("rotation_index" :> rotation_index) @@ ("map_index" :> map_index) @@
    ("interpolation_index" :> interpolation_index) @@
    ("scale_percent" :> scale_percent)

\* C20: at every tick boundary with no failed save (neither the save made
\* by load_settings nor the save of the last key handler failed), the
\* settings file's rotation_index, map_index, interpolation_index and
\* scale_percent equal the in-memory ones.
C20_EveryMutationPersisted ==
    (pc = "main" /\ load_saved \in {"none", "ok"} /\ last_save.result \in {"none", "ok"}) =>
        \A k \in DOMAIN PersistedFields :
            FileMember(k) = [j |-> "number", i |-> PersistedFields[k], s |-> ""]

\* A step that is an iteration which resized a frame and gave it to imshow.
ResizedTick ==
    /\ pc = "main" /\ budget' = budget - 1
    /\ shown' # NoFrame

\* The source dimensions of the iteration that begins in this state.
SourceDims == Rotated(frame_shape, rotation_index)

\* C21 as stated: each resize output dimension equals
\* max(1, round(d * scale_percent / 100)).
C21_AsStated ==
    [][ResizedTick =>
          /\ shown'.w = Max(1, PyRound(SourceDims.w * scale_percent, 100))
          /\ shown'.h = Max(1, PyRound(SourceDims.h * scale_percent, 100))]_vars

\* o is the quotient n / 100 with its fraction cut off, and at least 1.
Truncated(o, n) ==
    \/ o >= 1 /\ o * 100 <= n /\ n < (o + 1) * 100
    \/ o = 1 /\ n < 100

\* C21: for every source dimension d >= 1 and every reachable scale_percent,
\* each resize output dimension equals max(1, d * scale_percent / 100 with
\* the fraction cut off), and is therefore >= 1.
C21_ResizeTruncates ==
    [][ResizedTick =>
          /\ Truncated(shown'.w, SourceDims.w * scale_percent)
          /\ Truncated(shown'.h, SourceDims.h * scale_percent)
          /\ shown'.w >= 1 /\ shown'.h >= 1]_vars

\* C21 witness: a 96 x 96 frame was resized at 155 percent to 148 x 148,
\* where rounding 148.8 would have given 149.
C21_Witness ==
    /\ pc = "main"
    /\ last_tick.key = "none"
    /\ scale_percent = 155
    /\ frame_shape = [w |-> 96, h |-> 96]
    /\ shown.w = 148 /\ shown.h = 148

\* C22: for every pointer position (negative coordinates and a position
\* left over from a larger window included) the readout is taken from a
\* pixel inside the source frame, 0 <= orig_x < width and 0 <= orig_y <
\* height, the readout is in 0..100, and a pointer at the bottom-right pixel
\* of the display frame reads the bottom-right pixel of the source frame.
C22_PointerReadout ==
    [][ResizedTick =>
          /\ orig_x' \in 0..(SourceDims.w - 1)
          /\ orig_y' \in 0..(SourceDims.h - 1)
          /\ mouse_value' \in 0..100
          /\ (mouse_x = shown'.w - 1 /\ mouse_y = shown'.h - 1) =>
                 /\ orig_x' = SourceDims.w - 1
                 /\ orig_y' = SourceDims.h - 1]_vars

\* A step that is an iteration handling key k and going on to the next one.
KeyTick(k) ==
    /\ pc = "main" /\ pc' = "main"
    /\ budget' = budget - 1
    /\ last_tick'.key = k

\* C23: the snapshot command reports the real outcome of the image write:
\* 'Saved: ...' is shown only when the snapshot file has been written, and
\* when it has not, 'Failed to save snapshot.' is shown instead.
C23_SnapshotOutcomeReported ==
    [][KeyTick("s") =>
          /\ last_message' \in {Msg("Saved", now), Msg("Failed to save snapshot.", 0)}
          /\ last_message' = Msg("Saved", now) => now \in DOMAIN shots'
          /\ now \notin DOMAIN shots' =>
                 last_message' = Msg("Failed to save snapshot.", 0)]_vars

\* Two recording sessions of this run that were given the same file name.
SameCaptureName ==
    \E i, j \in DOMAIN sinks : i # j /\ sinks[i].name = sinks[j].name

\* C24: output files are uniquely named: a snapshot command that writes its
\* file writes to a name no earlier snapshot of the run has used, and no two
\* recording sessions of the run have the same capture file name.
C24_UniqueFileNames ==
    /\ [][(KeyTick("s") /\ last_message' = Msg("Saved", now)) =>
              now \notin DOMAIN shots]_vars
    /\ [] ~SameCaptureName

\* C25: every iteration of the main loop that does not end the loop has
\* polled the keyboard, the iterations in which an unexpected error was
\* caught included, so that a pending 'q' is seen by the next iteration.
C25_EveryIterationPolls ==
    [][(pc = "main" /\ pc' = "main" /\ budget' = budget - 1) =>
          last_tick'.key # "error"]_vars

\* C26: in the Windows variant too, after load and before the first frame
\* is processed, rotation_index, map_index and interpolation_index are valid
\* indices of their lists and scale_percent is within [min_scale,
\* max_scale], and no iteration ends the process with a failed lookup.
C26_WinConfigInDomain ==
    /\ pc = "win_main" =>
          /\ rotation_index \in 0..(Len(rotation_modes) - 1)
          /\ map_index \in 0..(Len(color_maps) - 1)
          /\ interpolation_index \in 0..(Len(interpolation_type) - 1)
          /\ scale_percent \in min_scale..max_scale
    /\ ~(pc = "exited" /\ last_tick.key = "error")

====
